---- MODULE Spec2Model ----
(***************************************************************************)
(* Pyroxy (src/main.py): a CORS-bypassing forwarding proxy.                *)
(*                                                                         *)
(* The module models                                                       *)
(*   - ResponseCache (get / set) as operators on a store value,            *)
(*   - the cache key built by process_request,                             *)
(*   - the request pipeline process_request / get_page / create_response,  *)
(*   - concurrent executions of the cache part of process_request at the   *)
(*     granularity of the statements of ResponseCache.get / set.           *)
(*                                                                         *)
(* Specifications:                                                         *)
(*   SpecCache  get / set called directly on a ResponseCache, clock ticks  *)
(*   SpecKey    the cache key of two request tuples                        *)
(*   Spec       the pipeline, one request at a time                        *)
(*   SpecFormat the pipeline on requests with callback, charset and Origin *)
(*   SpecConc   the cache part of the pipeline run by concurrent threads   *)
(***************************************************************************)
EXTENDS Integers, Sequences, FiniteSets, TLC

VARIABLES
    cache,      \* ResponseCache.cache : key -> [data, expiry]
    now,        \* time.time(), in seconds
    op,         \* SpecCache: the last call made on the store and its result
    streak,     \* SpecCache: distinct keys set one after another since the store was empty
    tuples,     \* SpecKey: the two request tuples whose keys are compared
    nreq,       \* Spec: the number of requests handled so far
    req,        \* Spec: the last request handled
    resp,       \* Spec: what the pipeline did for it and the response it produced
    thr         \* SpecConc: per thread, its position in get / set and its locals

vars == <<cache, now, op, streak, tuples, nreq, req, resp, thr>>

----------------------------------------------------------------------------
(* Bounds of the model *)

\* ResponseCache(max_size): the constructor's parameter (the program passes
\* the default, 1000); every formula below is stated for any max_size.
max_size == 2

\* The clock runs from 0 to MaxTime * 100 seconds.
MaxTime == 4

----------------------------------------------------------------------------
(* Program constants *)

DEFAULT_CACHE_TIME == 3600
MIN_CACHE_TIME == 300

\* Python's None, and a query parameter that is not in request.args
None == [none |-> TRUE]
Absent == "<absent>"

----------------------------------------------------------------------------
(* ResponseCache *)

EmptyStore == [k \in {} |-> None]

Remove(c, key) == [k \in DOMAIN c \ {key} |-> c[k]]

Put(c, key, item) == [k \in DOMAIN c \cup {key} |-> IF k = key THEN item ELSE c[k]]

\* get with the expiry test dropped: an expired entry is returned
CacheGet_NoExpiry(c, key, t) ==
    IF key \in DOMAIN c THEN [ret |-> c[key].data, cache |-> c]
    ELSE [ret |-> None, cache |-> c]

\* get that never finds anything
CacheGet_AlwaysMiss(c, key, t) == [ret |-> None, cache |-> c]

\* get that renews the expiry of the entry it returns
CacheGet_Touch(c, key, t) ==
    IF key \in DOMAIN c
    THEN IF c[key].expiry > t
         THEN [ret |-> c[key].data,
               cache |-> [c EXCEPT ![key].expiry = t + MIN_CACHE_TIME]]
         ELSE [ret |-> None, cache |-> Remove(c, key)]
    ELSE [ret |-> None, cache |-> c]

\* ResponseCache.get(key) at time t: the value returned and the store left
CacheGet(c, key, t) ==
    IF key \in DOMAIN c
    THEN IF c[key].expiry > t
         THEN [ret |-> c[key].data, cache |-> c]
         ELSE [ret |-> None, cache |-> Remove(c, key)]
    ELSE [ret |-> None, cache |-> c]

\* set that evicts one entry instead of clearing the store
CacheSet_EvictOne(c, key, value, expiry_seconds, t) ==
    LET base == IF Cardinality(DOMAIN c) >= max_size
                THEN Remove(c, CHOOSE k \in DOMAIN c : TRUE)
                ELSE c
    IN Put(base, key, [data |-> value, expiry |-> t + expiry_seconds])

\* set that does not store a page that reports an error
CacheSet_SkipErrors(c, key, value, expiry_seconds, t) ==
    LET base == IF Cardinality(DOMAIN c) >= max_size THEN EmptyStore ELSE c
    IN IF "error" \in DOMAIN value
          \/ ("status" \in DOMAIN value /\ "error" \in DOMAIN value.status)
       THEN base
       ELSE Put(base, key, [data |-> value, expiry |-> t + expiry_seconds])

\* set that never clears the store
CacheSet_NoClear(c, key, value, expiry_seconds, t) ==
    Put(c, key, [data |-> value, expiry |-> t + expiry_seconds])

\* ResponseCache.set(key, value, expiry_seconds) at time t: the store left
CacheSet(c, key, value, expiry_seconds, t) ==
    LET base == IF Cardinality(DOMAIN c) >= max_size THEN EmptyStore ELSE c
    IN Put(base, key, [data |-> value, expiry |-> t + expiry_seconds])

----------------------------------------------------------------------------
(* The cache key of process_request *)

\* params.get(name, default)
ParamGet(params, name, default) ==
    IF params[name] = Absent THEN default ELSE params[name]

\* cache_key = f"{params['requestMethod']}:{params['url']}:{fmt}:{params.get('charset', '')}"
cache_key(params) ==
    params.requestMethod \o ":" \o params.url \o ":" \o params.format
        \o ":" \o ParamGet(params, "charset", "")

----------------------------------------------------------------------------
(* The clock *)

ClockSteps == {100, 300}

Tick ==
    /\ \E d \in ClockSteps :
        /\ now + d <= MaxTime * 100
        /\ now' = now + d
    /\ op' = [name |-> "tick", key |-> "", value |-> None, ttl |-> 0, before |-> <<>>]
    /\ UNCHANGED <<cache, streak, tuples, nreq, req, resp, thr>>

----------------------------------------------------------------------------
(* SpecCache: calls on a ResponseCache *)

StoreKeys == {"GET:a:json:", "GET:a:raw:", "HEAD:a:json:", "HEAD:a:raw:"}
StoreValues == {[contents |-> "x"], [error |-> "timeout"]}
StoreTTLs == {100, 300}

IdleOp == [name |-> "init", key |-> "", value |-> None, ttl |-> 0, before |-> <<>>]
IdleReq == [method |-> Absent]
IdleResp == [kind |-> "none"]
IdleThr == [t \in {} |-> None]
IdleTuples == [computed |-> FALSE]

InitCache ==
    /\ cache = EmptyStore
    /\ now = 0
    /\ op = IdleOp
    /\ streak = <<>>
    /\ tuples = IdleTuples
    /\ nreq = 0
    /\ req = IdleReq
    /\ resp = IdleResp
    /\ thr = IdleThr

\* what the store held for key when the call was made: <<entry>> or <<>>
Before(c, key) == IF key \in DOMAIN c THEN <<c[key]>> ELSE <<>>

InSeq(s, x) == \E i \in 1..Len(s) : s[i] = x

Get(key) ==
    LET r == CacheGet(cache, key, now) IN
    /\ cache' = r.cache
    /\ op' = [name |-> "get", key |-> key, value |-> r.ret, ttl |-> 0,
              before |-> Before(cache, key)]
    /\ streak' = IF r.cache = cache THEN streak ELSE <<>>
    /\ UNCHANGED <<now, tuples, nreq, req, resp, thr>>

Set(key, value, ttl) ==
    /\ cache' = CacheSet(cache, key, value, ttl, now)
    /\ op' = [name |-> "set", key |-> key, value |-> value, ttl |-> ttl,
              before |-> Before(cache, key)]
    /\ streak' = IF cache = EmptyStore THEN <<key>>
                 ELSE IF streak # <<>> /\ Len(streak) <= max_size /\ ~InSeq(streak, key)
                      THEN Append(streak, key)
                      ELSE <<>>
    /\ UNCHANGED <<now, tuples, nreq, req, resp, thr>>

NextCache ==
    \/ \E key \in StoreKeys : Get(key)
    \/ \E key \in StoreKeys, value \in StoreValues, ttl \in StoreTTLs : Set(key, value, ttl)
    \/ Tick

SpecCache == InitCache /\ [][NextCache]_vars

\* C2: a set made when the store holds max_size or more entries leaves the
\* store holding the new key alone; hence after max_size + 1 distinct keys
\* were set one after another into an empty store (no get removed an entry
\* in between) the store holds exactly the last key set.
C2_EvictionCliff ==
    /\ [](Len(streak) = max_size + 1 => DOMAIN cache = {streak[max_size + 1]})
    /\ [][(op'.name = "set" /\ Cardinality(DOMAIN cache) >= max_size)
            => DOMAIN cache' = {op'.key}]_vars

C2_Witness ==
    /\ Len(streak) = max_size + 1
    /\ op.name = "set"
    /\ Cardinality(DOMAIN cache) = 1

\* C3: a set stores the value with expiry = time of the set + ttl; a get
\* returns a value only if the store held it for that key with now < expiry;
\* a get that finds expiry <= now returns None and leaves the key removed.
C3_LazyExpiry ==
    /\ op.name = "set" =>
          /\ op.key \in DOMAIN cache
          /\ cache[op.key] = [data |-> op.value, expiry |-> now + op.ttl]
    /\ op.name = "get" =>
          /\ op.value # None =>
                /\ op.before # <<>>
                /\ op.value = op.before[1].data
                /\ now < op.before[1].expiry
          /\ (op.before # <<>> /\ op.before[1].expiry <= now) =>
                /\ op.value = None
                /\ op.key \notin DOMAIN cache

C3_Witness ==
    /\ op.name = "get"
    /\ op.before # <<>>
    /\ op.before[1].expiry <= now
    /\ op.value = None
    /\ op.key \notin DOMAIN cache

\* C7: for max_size >= 1 the store never holds more than max_size entries,
\* after any sequence of get and set calls and clock advances.
C7_SizeBound == max_size >= 1 => Cardinality(DOMAIN cache) <= max_size

C7_Witness ==
    /\ op.name = "set"
    /\ op.before = <<>>
    /\ Cardinality(DOMAIN cache) = max_size

\* what a step may do to the entries of the store
StoreStep ==
    /\ \A k \in DOMAIN cache \ DOMAIN cache' :
          \/ (op'.name = "get" /\ op'.key = k /\ cache[k].expiry <= now)
          \/ (op'.name = "set" /\ Cardinality(DOMAIN cache) >= max_size)
    /\ (op'.name = "get"
            /\ (op'.key \notin DOMAIN cache \/ cache[op'.key].expiry > now)) =>
          /\ DOMAIN cache' = DOMAIN cache
          /\ \A k \in DOMAIN cache : cache'[k].expiry = cache[k].expiry
    /\ \A k \in DOMAIN cache \cap DOMAIN cache' :
          (op'.name # "set" \/ op'.key # k) => cache'[k].expiry = cache[k].expiry

\* C20: an entry leaves the store only in a get of its own key that finds
\* it expired or in the full clear of a set made on a full store; a get of
\* an absent key or of a live key leaves the keys and every expiry as they
\* were; no call but a set of the same key changes an entry's expiry; and a
\* get at or after an entry's expiry returns None and leaves the key absent.
C20_RemovalPaths ==
    /\ [][StoreStep]_vars
    /\ []((op.name = "get" /\ op.before # <<>> /\ op.before[1].expiry <= now) =>
            (op.value = None /\ op.key \notin DOMAIN cache))

C20_Witness ==
    /\ op.name = "get"
    /\ op.value # None
    /\ now > 0
    /\ op.key \in DOMAIN cache
    /\ <<cache[op.key]>> = op.before
    /\ Cardinality(DOMAIN cache) = max_size

----------------------------------------------------------------------------
(* SpecKey: the keys of two request tuples *)

KeyMethods == {"GET", "HEAD"}
KeyUrls == {"a", "a:raw"}
KeyFormats == {"get", "raw", "json", "info"}
KeyCharsets == {Absent, "utf-8", "json:utf-8"}

KeyTuples ==
    [requestMethod : KeyMethods, url : KeyUrls, format : KeyFormats, charset : KeyCharsets]

InitKey ==
    /\ tuples \in [computed : {FALSE}, a : KeyTuples, b : KeyTuples]
    /\ cache = EmptyStore
    /\ now = 0
    /\ op = IdleOp
    /\ streak = <<>>
    /\ nreq = 0
    /\ req = IdleReq
    /\ resp = IdleResp
    /\ thr = IdleThr

\* process_request builds the key of each of the two requests
BuildKeys ==
    /\ ~tuples.computed
    /\ tuples' = [computed |-> TRUE, a |-> tuples.a, b |-> tuples.b,
                  key_a |-> cache_key(tuples.a), key_b |-> cache_key(tuples.b)]
    /\ UNCHANGED <<cache, now, op, streak, nreq, req, resp, thr>>

NextKey == BuildKeys

SpecKey == InitKey /\ [][NextKey]_vars

\* C6: the cache key is injective on (method, url, format, charset): two
\* requests get the same key exactly when the four fields are identical.
C6_KeyInjective ==
    tuples.computed => ((tuples.key_a = tuples.key_b) <=> (tuples.a = tuples.b))

----------------------------------------------------------------------------
(* Bytes and text: bytes are sequences of 0..255, text is a sequence of    *)
(* code points.                                                            *)

REPLACEMENT == <<65533>>

\* the UTF-8 encoding of one code point (up to U+FFFF)
Utf8Of(cp) ==
    IF cp < 128 THEN <<cp>>
    ELSE IF cp < 2048 THEN <<192 + (cp \div 64), 128 + (cp % 64)>>
    ELSE <<224 + (cp \div 4096), 128 + ((cp \div 64) % 64), 128 + (cp % 64)>>

RECURSIVE Utf8Encode(_)
\* str.encode('utf-8')
Utf8Encode(text) ==
    IF text = <<>> THEN <<>> ELSE Utf8Of(Head(text)) \o Utf8Encode(Tail(text))

IsCont(b) == b >= 128 /\ b < 192

\* the length of the well-formed UTF-8 sequence that starts b, or 0
Utf8Lead(b) ==
    IF Head(b) < 128 THEN 1
    ELSE IF Head(b) >= 194 /\ Head(b) < 224 /\ Len(b) >= 2 /\ IsCont(b[2]) THEN 2
    ELSE IF Head(b) >= 225 /\ Head(b) < 240 /\ Len(b) >= 3 /\ IsCont(b[2]) /\ IsCont(b[3]) THEN 3
    ELSE 0

Utf8Point(b, n) ==
    IF n = 1 THEN b[1]
    ELSE IF n = 2 THEN (b[1] - 192) * 64 + (b[2] - 128)
    ELSE (b[1] - 224) * 4096 + (b[2] - 128) * 64 + (b[3] - 128)

RECURSIVE Utf8Valid(_)
Utf8Valid(b) ==
    IF b = <<>> THEN TRUE
    ELSE Utf8Lead(b) > 0 /\ Utf8Valid(SubSeq(b, Utf8Lead(b) + 1, Len(b)))

RECURSIVE Utf8DecodeReplace(_)
\* bytes.decode('utf-8', errors='replace')
Utf8DecodeReplace(b) ==
    IF b = <<>> THEN <<>>
    ELSE IF Utf8Lead(b) = 0 THEN REPLACEMENT \o Utf8DecodeReplace(Tail(b))
    ELSE <<Utf8Point(b, Utf8Lead(b))>>
            \o Utf8DecodeReplace(SubSeq(b, Utf8Lead(b) + 1, Len(b)))

\* str.lower() on the charset names the model uses
Lower(cs) == IF cs = "UTF-8" THEN "utf-8" ELSE cs

\* the codecs Python finds for the charset names the model uses; any other
\* name makes bytes.decode raise LookupError
Codec(cs) ==
    IF Lower(cs) = "utf-8" THEN "utf-8"
    ELSE IF cs = "latin-1" THEN "latin-1"
    ELSE "unknown"

\* bytes.decode(charset): [exc |-> "", text] or the exception raised
Decode(b, cs) ==
    IF Codec(cs) = "unknown" THEN [exc |-> "LookupError"]
    ELSE IF Codec(cs) = "latin-1" THEN [exc |-> "", text |-> b]
    ELSE IF Utf8Valid(b) THEN [exc |-> "", text |-> Utf8DecodeReplace(b)]
    ELSE [exc |-> "UnicodeError"]

\* int(x) for the strings the model uses: the strings Python parses, and
\* their values; any other string makes int raise ValueError
IntOf == ("1" :> 1) @@ ("2" :> 2) @@ ("400" :> 400) @@ ("5000" :> 5000)

Max(a, b) == IF a >= b THEN a ELSE b

----------------------------------------------------------------------------
(* The remote fetcher.  An upstream is what the outbound HTTP call meets:  *)
(*   [kind |-> "error", message]                a requests.RequestException *)
(*   [kind |-> "ok", code, ctype, clen, body]   a response; ctype and clen  *)
(*                                              are header values or Absent *)
(* A fetcher returns [exc |-> "", page] or [exc |-> the exception raised]. *)

Returned(page) == [exc |-> "", page |-> page]
Raised(e) == [exc |-> e]

\* response.headers.get(name): None when the header is absent
HeaderGet(v) == IF v = Absent THEN None ELSE v

\* get_page_info(url)
get_page_info(url, up) ==
    IF up.kind = "error" THEN Returned([error |-> up.message])
    ELSE IF up.clen # Absent /\ up.clen \notin DOMAIN IntOf THEN Raised("ValueError")
    ELSE Returned([url |-> url,
                   content_type |-> HeaderGet(up.ctype),
                   content_length |-> IF up.clen = Absent THEN -1 ELSE IntOf[up.clen],
                   http_code |-> up.code])

\* a charset is truthy when it is present and not the empty string
Truthy(v) == v # Absent /\ v # ""

\* get_raw_page(url, request_method, charset)
get_raw_page(url, request_method, charset, up) ==
    IF up.kind = "error" THEN Returned([error |-> up.message])
    ELSE IF Truthy(charset) /\ Lower(charset) # "utf-8"
    THEN LET d == Decode(up.body, charset) IN
         IF d.exc = "LookupError" THEN Raised("LookupError")
         ELSE LET content == IF d.exc = "" THEN Utf8Encode(d.text) ELSE up.body IN
              Returned([content |-> content,
                        contentType |-> HeaderGet(up.ctype),
                        contentLength |-> Len(content)])
    ELSE Returned([content |-> up.body,
                   contentType |-> HeaderGet(up.ctype),
                   contentLength |-> Len(up.body)])

\* get_page_contents(url, request_method, charset)
get_page_contents(url, request_method, charset, up) ==
    IF up.kind = "error"
    THEN Returned([contents |-> None, status |-> [error |-> up.message]])
    ELSE LET d == IF Truthy(charset) THEN Decode(up.body, charset)
                  ELSE [exc |-> "", text |-> Utf8DecodeReplace(up.body)]
             status == [url |-> url,
                        content_type |-> HeaderGet(up.ctype),
                        content_length |-> Len(up.body),
                        http_code |-> up.code]
         IN IF d.exc = "LookupError" THEN Raised("LookupError")
            ELSE IF d.exc = "UnicodeError"
            THEN Returned([contents |-> Utf8DecodeReplace(up.body), status |-> status])
            ELSE Returned([contents |-> d.text, status |-> status])

\* every request answered by the header-only probe
get_page_ProbeOnly(params, up) == get_page_info(params.url, up)

\* get_page(params): the header-only probe for info and for HEAD, the raw
\* branch for raw, the content branch for everything else
get_page(params, up) ==
    IF params.format = "info" \/ params.requestMethod = "HEAD"
    THEN get_page_info(params.url, up)
    ELSE IF params.format = "raw"
    THEN get_raw_page(params.url, params.requestMethod, params.charset, up)
    ELSE get_page_contents(params.url, params.requestMethod, params.charset, up)

----------------------------------------------------------------------------
(* The response encoder *)

CacheMethods == {"GET", "HEAD"}

\* the test of disableCache alone, for every method
CacheEnabled_AnyMethod(method, params) == params.disableCache # "true"

\* request.method in ["GET", "HEAD"] and not params.get("disableCache") == "true"
CacheEnabled(method, params) ==
    method \in CacheMethods /\ params.disableCache # "true"

\* int(params.get("cacheMaxAge", DEFAULT_CACHE_TIME)): [exc |-> "", v] or ValueError
CacheMaxAge(params) ==
    IF params.cacheMaxAge = Absent THEN [exc |-> "", v |-> DEFAULT_CACHE_TIME]
    ELSE IF params.cacheMaxAge \in DOMAIN IntOf
    THEN [exc |-> "", v |-> IntOf[params.cacheMaxAge]]
    ELSE [exc |-> "ValueError"]

\* the TTL without the floor of MIN_CACHE_TIME
StoreTTL_NoFloor(params) == CacheMaxAge(params)

\* process_request: max(MIN_CACHE_TIME, int(params.get("cacheMaxAge", DEFAULT_CACHE_TIME)))
StoreTTL(params) ==
    LET a == CacheMaxAge(params) IN
    IF a.exc # "" THEN a ELSE [exc |-> "", v |-> Max(MIN_CACHE_TIME, a.v)]

\* create_response: 0 if params.get("disableCache") == "true" else max(MIN_CACHE_TIME, int(...))
HeaderMaxAge(params) ==
    IF params.disableCache = "true" THEN [exc |-> "", v |-> 0]
    ELSE LET a == CacheMaxAge(params) IN
         IF a.exc # "" THEN a ELSE [exc |-> "", v |-> Max(MIN_CACHE_TIME, a.v)]

\* a page is never taken to report an error
HasError_Never(page) == FALSE

\* page.get("error") is truthy
HasError(page) == "error" \in DOMAIN page /\ page.error # ""

\* page with response_time injected: into page["status"] when the page has
\* a status, else at the top level
WithResponseTime(page, response_time) ==
    IF "status" \in DOMAIN page
    THEN [page EXCEPT !.status =
            [k \in DOMAIN page.status \cup {"response_time"} |->
                IF k = "response_time" THEN response_time ELSE page.status[k]]]
    ELSE [k \in DOMAIN page \cup {"response_time"} |->
            IF k = "response_time" THEN response_time ELSE page[k]]

NoMaxAge == -1

\* the callback applied without the closing ");"
jsonp_body_Unclosed(callback, page) == <<[text |-> callback \o "("], [json |-> page]>>

\* f"{callback}({json.dumps(page)});" as the parts of the text
jsonp_body(callback, page) ==
    <<[text |-> callback \o "("], [json |-> page], [text |-> ");"]>>

\* create_response(page, params, start_time) called at time t.  The result:
\*   exc      the exception raised, or ""
\*   page     the page object after the call (create_response writes into it)
\*   max_age  the max-age of Cache-Control, NoMaxAge when the header is not set
\*   body     [wrap |-> "raw" | "json" | "jsonp", ...]; for "json" and "jsonp"
\*            parts is the text of the body, json.dumps(page) being the part
\*            [json |-> page]; content_type is the Content-Type put into
\*            response_headers and mimetype the mimetype given to Response
create_response(page, params, method, start_time, t) ==
    LET ma == IF method \in CacheMethods THEN HeaderMaxAge(params)
              ELSE [exc |-> "", v |-> NoMaxAge]
    IN
    IF ma.exc # "" THEN [exc |-> ma.exc, page |-> page]
    ELSE IF params.format = "raw" /\ ~HasError(page)
    THEN [exc |-> "", page |-> page, max_age |-> ma.v,
          body |-> [wrap |-> "raw",
                    content |-> IF "content" \in DOMAIN page THEN page.content ELSE <<>>,
                    content_length |-> IF "contentLength" \in DOMAIN page
                                       THEN page.contentLength ELSE 0,
                    content_type |-> IF "contentType" \in DOMAIN page
                                     THEN page.contentType ELSE "text/plain"]]
    ELSE LET timed == WithResponseTime(page, t - start_time) IN
         [exc |-> "", page |-> timed, max_age |-> ma.v,
          body |-> [wrap |-> IF Truthy(params.callback) THEN "jsonp" ELSE "json",
                    callback |-> params.callback,
                    charset |-> ParamGet(params, "charset", "utf-8"),
                    json |-> timed,
                    parts |-> IF Truthy(params.callback)
                              THEN jsonp_body(params.callback, timed)
                              ELSE <<[json |-> timed]>>,
                    content_type |-> "application/json; charset="
                                        \o ParamGet(params, "charset", "utf-8"),
                    mimetype |-> IF Truthy(params.callback) THEN "application/javascript"
                                 ELSE "application/json"]]

----------------------------------------------------------------------------
(* The request pipeline.  A request is                                     *)
(*   [method, path, url, charset, disableCache, cacheMaxAge, callback,     *)
(*    origin]                                                              *)
(* where path is the segment of the route, origin the Origin header and    *)
(* the other fields are query parameters (Absent when not given).  resp    *)
(* records what the pipeline did and the response it produced:             *)
(*   status     200, 400, or 500 when an exception left the view function  *)
(*   kind       "empty", "error", "raw", "json", "jsonp" or "fault"        *)
(*   looked_up  response_cache.get was called                              *)
(*   hit        it returned a page                                         *)
(*   fetched    get_page was called (an outbound fetch was made)           *)
(*   stored     response_cache.set was called, with ttl                    *)
(*   changed    the store after the request differs from the store before  *)
(*   at         the time at which the request was finished                 *)
(*   met        the upstream the outbound fetch met                        *)
(*   cors       the headers add_cors_headers put on the response           *)

ValidFormats == {"get", "raw", "json", "info"}

NoURL == "No URL provided. Please add a url parameter."
BadFormat == "Invalid format. Use one of: get, raw, json, info"

NoTTL == -1

Quiet == [status |-> 200, kind |-> "empty", exc |-> "", message |-> "",
          looked_up |-> FALSE, hit |-> FALSE, fetched |-> FALSE, stored |-> FALSE,
          changed |-> FALSE, at |-> 0,
          ttl |-> NoTTL, max_age |-> NoMaxAge, page |-> None, body |-> None,
          upstream |-> "none", met |-> None, cors |-> None]

Params(r) ==
    [url |-> r.url, charset |-> r.charset, disableCache |-> r.disableCache,
     cacheMaxAge |-> r.cacheMaxAge, callback |-> r.callback,
     format |-> r.path, requestMethod |-> r.method]

\* `if cached_response:` a page is served from the cache when get returned
\* a non-empty dict
PageTruthy(page) == page # None /\ DOMAIN page # {}

\* process_request(fmt) for request r at time t, the outbound call meeting
\* upstream up and taking dur seconds: the store and the clock it leaves,
\* and resp
process_request(c, t, r, up, dur) ==
    LET params == Params(r)
        key == cache_key(params)
        enabled == CacheEnabled(r.method, params)
        g == IF enabled THEN CacheGet(c, key, t) ELSE [ret |-> None, cache |-> c]
        seen == [Quiet EXCEPT !.looked_up = enabled]
    IN
    IF r.method = "OPTIONS" THEN [cache |-> c, now |-> t, resp |-> Quiet]
    ELSE IF r.url = Absent
    THEN [cache |-> c, now |-> t,
          resp |-> [Quiet EXCEPT !.status = 400, !.kind = "error", !.message = NoURL]]
    ELSE IF enabled /\ PageTruthy(g.ret)
    THEN LET e == create_response(g.ret, params, r.method, t, t) IN
         IF e.exc # ""
         THEN [cache |-> g.cache, now |-> t,
               resp |-> [seen EXCEPT !.status = 500, !.kind = "fault", !.exc = e.exc,
                                     !.hit = TRUE, !.page = g.ret]]
         ELSE [cache |-> [g.cache EXCEPT ![key].data = e.page], now |-> t,
               resp |-> [seen EXCEPT !.kind = e.body.wrap, !.hit = TRUE,
                                     !.max_age = e.max_age, !.page = e.page,
                                     !.body = e.body]]
    ELSE LET f == get_page(params, up)
             t2 == t + dur
             fetched == [seen EXCEPT !.fetched = TRUE, !.upstream = up.kind, !.met = up]
         IN
         IF f.exc # ""
         THEN [cache |-> g.cache, now |-> t2,
               resp |-> [fetched EXCEPT !.status = 500, !.kind = "fault", !.exc = f.exc]]
         ELSE LET e == create_response(f.page, params, r.method, t, t2) IN
              IF e.exc # ""
              THEN [cache |-> g.cache, now |-> t2,
                    resp |-> [fetched EXCEPT !.status = 500, !.kind = "fault",
                                             !.exc = e.exc, !.page = f.page]]
              ELSE LET sent == [fetched EXCEPT !.kind = e.body.wrap,
                                               !.max_age = e.max_age,
                                               !.page = e.page, !.body = e.body]
                   IN
                   IF enabled
                   THEN [cache |-> CacheSet(g.cache, key, e.page, StoreTTL(params).v, t2),
                         now |-> t2,
                         resp |-> [sent EXCEPT !.stored = TRUE,
                                               !.ttl = StoreTTL(params).v]]
                   ELSE [cache |-> g.cache, now |-> t2, resp |-> sent]

\* the view function without the check of the format
handle_request_NoCheck(c, t, r, up, dur) == process_request(c, t, r, up, dur)

\* handle_request(format): the route's view function
handle_request(c, t, r, up, dur) ==
    IF r.path \notin ValidFormats
    THEN [cache |-> c, now |-> t,
          resp |-> [Quiet EXCEPT !.status = 400, !.kind = "error", !.message = BadFormat]]
    ELSE process_request(c, t, r, up, dur)

----------------------------------------------------------------------------
(* Spec: the pipeline handling one request after another *)

\* Each behaviour handles at most MaxRequests requests.
MaxRequests == 2

\* the requests a client makes: the cacheable and the other methods on each
\* format, with and without disableCache=true and cacheMaxAge=1;
Plain ==
    [method : {"GET", "HEAD", "POST"}, path : {"json", "raw", "info"}, url : {"a"},
     charset : {Absent}, disableCache : {Absent, "true"}, cacheMaxAge : {Absent, "1"},
     callback : {Absent}, origin : {Absent}]

\* other values of disableCache and cacheMaxAge;
Tuned ==
    [method : {"GET"}, path : {"get"}, url : {"a"}, charset : {Absent},
     disableCache : {Absent, "true", "TRUE", "1"},
     cacheMaxAge : {"400", "5000", "abc"},
     callback : {Absent}, origin : {Absent}]

\* preflights, missing urls and unknown formats
Edge ==
    [method : {"GET", "POST", "OPTIONS"}, path : {"json", "xml"}, url : {Absent, "a"},
     charset : {Absent}, disableCache : {Absent}, cacheMaxAge : {Absent},
     callback : {Absent}, origin : {Absent}]

\* charsets: a codec other than utf-8, and a name Python knows no codec for
Recoded ==
    [method : {"GET"}, path : {"json", "raw"}, url : {"a"},
     charset : {"latin-1", "bogus"}, disableCache : {Absent}, cacheMaxAge : {Absent},
     callback : {Absent}, origin : {Absent}]

Requests == Plain \cup Tuned \cup Edge \cup Recoded

\* what the outbound call meets, and how long it takes
Upstreams ==
    {[kind |-> "error", message |-> "ConnectionError"],
     [kind |-> "ok", code |-> 200, ctype |-> "text/html", clen |-> "2",
      body |-> <<104, 233>>]}

Durations == {0, 100}

Init ==
    /\ cache = EmptyStore
    /\ now = 0
    /\ op = IdleOp
    /\ streak = <<>>
    /\ tuples = IdleTuples
    /\ nreq = 0
    /\ req = IdleReq
    /\ resp = IdleResp
    /\ thr = IdleThr

\* the hook that allows every origin without looking at the request
add_cors_headers_Star(response, r) ==
    [response EXCEPT !.cors =
        [allow_origin |-> "*",
         allow_credentials |-> "true",
         allow_headers |-> "Origin, X-Requested-With, Content-Type, Content-Encoding, Accept",
         allow_methods |-> "OPTIONS, GET, POST, PATCH, PUT, DELETE"]]

\* add_cors_headers(response): the after_request hook, run on every response
\* a view function returns
add_cors_headers(response, r) ==
    [response EXCEPT !.cors =
        [allow_origin |-> ParamGet(r, "origin", "*"),
         allow_credentials |-> "true",
         allow_headers |-> "Origin, X-Requested-With, Content-Type, Content-Encoding, Accept",
         allow_methods |-> "OPTIONS, GET, POST, PATCH, PUT, DELETE"]]

\* the response that leaves the server: the hook is applied to what
\* handle_request returned; when the view raised, no response of this
\* program exists
Stamped(response, r) ==
    IF response.kind = "fault" THEN response ELSE add_cors_headers(response, r)

HandleRequest(r, up, dur) ==
    LET out == handle_request(cache, now, r, up, dur) IN
    /\ nreq < MaxRequests
    /\ out.now <= MaxTime * 100
    /\ cache' = out.cache
    /\ now' = out.now
    /\ nreq' = nreq + 1
    /\ req' = r
    /\ resp' = [Stamped(out.resp, r) EXCEPT !.changed = (out.cache # cache),
                                           !.at = out.now]
    /\ UNCHANGED <<op, streak, tuples, thr>>

Elapse ==
    /\ nreq < MaxRequests
    /\ \E d \in ClockSteps :
        /\ now + d <= MaxTime * 100
        /\ now' = now + d
    /\ UNCHANGED <<cache, op, streak, tuples, nreq, req, resp, thr>>

Next ==
    \/ \E r \in Requests, up \in Upstreams, dur \in Durations : HandleRequest(r, up, dur)
    \/ Elapse

Spec == Init /\ [][Next]_vars

----------------------------------------------------------------------------
(* Claims about the pipeline *)

\* the request tuple of the cache key
SameTuple(r1, r2) ==
    /\ r1.method = r2.method
    /\ r1.url = r2.url
    /\ r1.path = r2.path
    /\ r1.charset = r2.charset

\* the request passes validation: it is no preflight, has a url and a known format
Valid(r) == r.method # "OPTIONS" /\ r.url # Absent /\ r.path \in {"get", "raw", "json", "info"}

\* a valid GET or HEAD request that does not carry disableCache=true
Cached(r) == Valid(r) /\ r.method \in {"GET", "HEAD"} /\ r.disableCache # "true"

KeyOf(r) == cache_key(Params(r))

\* a page without the injected response_time
StripTime(page) ==
    IF "status" \in DOMAIN page
    THEN [page EXCEPT !.status = [k \in DOMAIN page.status \ {"response_time"} |-> page.status[k]]]
    ELSE [k \in DOMAIN page \ {"response_time"} |-> page[k]]

\* the step handles a request
Handles == nreq' = nreq + 1

\* the step handles a request with the tuple of the request before it, which
\* stored its page, and caching is enabled for it
Repeats ==
    /\ Handles
    /\ nreq >= 1
    /\ resp.stored
    /\ Cached(req')
    /\ SameTuple(req, req')

\* C1: a GET/HEAD request with caching enabled that follows a request with
\* the identical (method, url, format, charset) which stored its page, before
\* that entry's expiry, makes no outbound fetch, and the page it serves is
\* the stored page, identical except for response_time.
C1_CachedRepeat ==
    [][Repeats =>
            /\ KeyOf(req) \in DOMAIN cache
            /\ now < cache[KeyOf(req)].expiry =>
                  /\ ~resp'.fetched
                  /\ resp'.hit
                  /\ StripTime(resp'.page) = StripTime(cache[KeyOf(req)].data)
                  /\ StripTime(resp'.page) = StripTime(resp.page)]_vars

C1_Witness ==
    /\ nreq = 2
    /\ Cached(req)
    /\ resp.hit
    /\ ~resp.fetched
    /\ resp.status = 200
    /\ now >= 200

\* the cacheMaxAge of r as an integer, 3600 when absent
MaxAgeAsked(r) == IF r.cacheMaxAge = Absent THEN 3600 ELSE IntOf[r.cacheMaxAge]

IntegerMaxAge(r) == r.cacheMaxAge = Absent \/ r.cacheMaxAge \in DOMAIN IntOf

\* C5: for a GET/HEAD request with caching enabled and an integer cacheMaxAge
\* (3600 when absent), the TTL passed to the store is max(300, cacheMaxAge),
\* the entry expires that long after the set, every fetched page is stored,
\* and the max-age of the response is the same value.
C5_TTLFloor ==
    (nreq >= 1 /\ Cached(req) /\ IntegerMaxAge(req)) =>
        /\ resp.status = 200 => resp.max_age = Max(300, MaxAgeAsked(req))
        /\ resp.stored =>
              /\ resp.ttl = Max(300, MaxAgeAsked(req))
              /\ KeyOf(req) \in DOMAIN cache
              /\ cache[KeyOf(req)].expiry = resp.at + Max(300, MaxAgeAsked(req))
        /\ (resp.fetched /\ resp.status = 200) => resp.stored

C5_Witness ==
    /\ nreq >= 1
    /\ Cached(req)
    /\ req.cacheMaxAge = "1"
    /\ resp.stored
    /\ resp.ttl = 300
    /\ resp.max_age = 300
    /\ cache[KeyOf(req)].expiry = resp.at + 300

\* C8: a valid request whose method is not GET or HEAD, or whose disableCache
\* is exactly "true", makes an outbound fetch, neither reads nor writes the
\* store and leaves it unchanged; with any other disableCache a GET/HEAD
\* request reads the store and stores what it fetched; for GET/HEAD with
\* disableCache="true" the max-age of the response is 0.
C8_CacheBypass ==
    (nreq >= 1 /\ Valid(req)) =>
        /\ (req.method \notin {"GET", "HEAD"} \/ req.disableCache = "true") =>
              /\ resp.fetched
              /\ ~resp.looked_up
              /\ ~resp.hit
              /\ ~resp.stored
              /\ ~resp.changed
        /\ (req.method \in {"GET", "HEAD"} /\ req.disableCache = "true" /\ resp.status = 200)
              => resp.max_age = 0
        /\ (req.method \in {"GET", "HEAD"} /\ req.disableCache # "true") =>
              /\ resp.looked_up
              /\ (resp.fetched /\ resp.status = 200) => resp.stored
              /\ resp.status = 200 => resp.max_age >= 300

C8_Witness ==
    /\ nreq = 2
    /\ req.method = "GET"
    /\ req.disableCache = "true"
    /\ KeyOf(req) \in DOMAIN cache
    /\ cache[KeyOf(req)].expiry <= now
    /\ resp.fetched
    /\ resp.max_age = 0

\* what a request that ends at validation leaves behind
Untouched ==
    /\ ~resp.looked_up
    /\ ~resp.hit
    /\ ~resp.fetched
    /\ ~resp.stored
    /\ ~resp.changed

\* C9 as stated: every OPTIONS request gets the empty success response, every
\* other request without url gets 400 with the no-url message, every request
\* with an unknown format gets 400, and none of them touches store or fetcher.
C9_AsStated ==
    nreq >= 1 =>
        /\ req.method = "OPTIONS" =>
              resp.status = 200 /\ resp.kind = "empty" /\ Untouched
        /\ (req.method # "OPTIONS" /\ req.url = Absent) =>
              resp.status = 400 /\ resp.message = NoURL /\ Untouched
        /\ req.path \notin {"get", "raw", "json", "info"} =>
              resp.status = 400 /\ Untouched

\* C9 amended: the format is checked first: a request with an unknown format
\* gets 400 with the invalid-format message, whatever its method and url;
\* with a known format an OPTIONS request gets the empty success response
\* (even without url) and any other request without url gets 400 with the
\* no-url message; none of them touches store or fetcher.
C9_Validation ==
    nreq >= 1 =>
        /\ req.path \notin {"get", "raw", "json", "info"} =>
              resp.status = 400 /\ resp.message = BadFormat /\ Untouched
        /\ (req.path \in {"get", "raw", "json", "info"} /\ req.method = "OPTIONS") =>
              resp.status = 200 /\ resp.kind = "empty" /\ Untouched
        /\ (req.path \in {"get", "raw", "json", "info"} /\ req.method # "OPTIONS"
                /\ req.url = Absent) =>
              resp.status = 400 /\ resp.message = NoURL /\ Untouched

C9_Witness ==
    /\ nreq = 2
    /\ cache # EmptyStore
    /\ req.method = "OPTIONS"
    /\ req.path = "json"
    /\ req.url = Absent
    /\ resp.status = 200
    /\ resp.kind = "empty"
    /\ Untouched

\* the error-shaped result of the branch get_page takes for r
ErrorShaped(page, r) ==
    IF r.path = "info" \/ r.method = "HEAD" \/ r.path = "raw"
    THEN DOMAIN page = {"error"} \/ DOMAIN page = {"error", "response_time"}
    ELSE /\ page.contents = None
         /\ "error" \in DOMAIN page.status

\* C10: when the outbound fetch fails at transport level the fetcher returns
\* the error-shaped page of its branch and raises nothing; for a GET/HEAD
\* request with caching enabled that page is stored with the usual TTL, and
\* the next request with the identical tuple is served that page without an
\* outbound fetch before the expiry, and fetches again from the expiry on.
C10_ErrorsAreCached ==
    /\ []((nreq >= 1 /\ resp.fetched /\ resp.upstream = "error") =>
            /\ resp.page # None
            /\ ErrorShaped(resp.page, req)
            /\ (Cached(req) /\ resp.status = 200) =>
                  /\ resp.stored
                  /\ resp.ttl = Max(300, MaxAgeAsked(req))
                  /\ KeyOf(req) \in DOMAIN cache
                  /\ cache[KeyOf(req)] = [data |-> resp.page, expiry |-> resp.at + resp.ttl])
    /\ [][(Repeats /\ resp.upstream = "error") =>
            /\ KeyOf(req) \in DOMAIN cache
            /\ IF now < cache[KeyOf(req)].expiry
               THEN /\ ~resp'.fetched
                    /\ ErrorShaped(resp'.page, req')
                    /\ StripTime(resp'.page) = StripTime(resp.page)
               ELSE resp'.fetched]_vars

C10_Witness ==
    /\ nreq = 2
    /\ Cached(req)
    /\ resp.hit
    /\ ~resp.fetched
    /\ resp.status = 200
    /\ ErrorShaped(resp.page, req)

----------------------------------------------------------------------------
(* SpecFormat: the pipeline on requests that differ in format, callback,   *)
(* charset and Origin, against upstreams that differ in their headers      *)

\* every fetching method on every format, with and without callback and Origin;
Wrapped ==
    [method : {"GET", "HEAD", "POST"}, path : {"json", "raw", "info"}, url : {"a"},
     charset : {Absent}, disableCache : {Absent}, cacheMaxAge : {Absent},
     callback : {Absent, "foo"}, origin : {Absent, "http://b"}]

\* the content and raw branches with a charset
Transcoded ==
    [method : {"GET"}, path : {"get", "raw"}, url : {"a"},
     charset : {"latin-1", "UTF-8"}, disableCache : {Absent}, cacheMaxAge : {Absent},
     callback : {Absent}, origin : {Absent}]

\* preflights, missing urls and unknown formats, with callback and Origin
Rejected ==
    [method : {"GET", "OPTIONS"}, path : {"raw", "xml"}, url : {Absent},
     charset : {Absent}, disableCache : {Absent}, cacheMaxAge : {Absent},
     callback : {"foo"}, origin : {Absent, "http://b"}]

FormatRequests == Wrapped \cup Transcoded \cup Rejected

\* a transport failure, and responses whose Content-Length header is an
\* integer, is absent, and is no integer
FormatUpstreams ==
    {[kind |-> "error", message |-> "ConnectionError"],
     [kind |-> "ok", code |-> 200, ctype |-> "text/html", clen |-> "2",
      body |-> <<104, 233>>],
     [kind |-> "ok", code |-> 200, ctype |-> "text/html", clen |-> Absent,
      body |-> <<104, 233>>],
     [kind |-> "ok", code |-> 200, ctype |-> "text/html", clen |-> "abc",
      body |-> <<104, 233>>]}

NextFormat ==
    \/ \E r \in FormatRequests, up \in FormatUpstreams, dur \in Durations :
            HandleRequest(r, up, dur)
    \/ Elapse

SpecFormat == Init /\ [][NextFormat]_vars

\* the request was answered by the encoder: it passed validation and
\* create_response returned
Encoded == nreq >= 1 /\ Valid(req) /\ resp.kind \in {"raw", "json", "jsonp"}

\* C11 as stated: the output of a request with format=raw is never wrapped in
\* JSON, whatever the method and whatever the outcome of the fetch.
C11_AsStated ==
    (Encoded /\ req.path = "raw") => resp.kind = "raw"

\* C11 amended: the output of a request with format=raw is not wrapped in
\* JSON when the page reports no error, and is wrapped in JSON (or JSONP),
\* with response_time injected, when the page reports an error.
C11_RawRouting ==
    (Encoded /\ req.path = "raw") =>
        IF "error" \in DOMAIN resp.page
        THEN /\ resp.kind \in {"json", "jsonp"}
             /\ resp.body.json = resp.page
             /\ "response_time" \in DOMAIN resp.page
        ELSE /\ resp.kind = "raw"
             /\ "response_time" \notin DOMAIN resp.page

C11_Witness ==
    /\ Encoded
    /\ req.path = "raw"
    /\ req.method = "GET"
    /\ resp.fetched
    /\ "error" \in DOMAIN resp.page
    /\ resp.kind = "json"

\* the body of upstream up decoded as the content branch is to decode it for
\* r: with the charset of r when it decodes the body, else as UTF-8 with
\* replacement characters
DecodedBody(r, up) ==
    IF Truthy(r.charset) /\ Decode(up.body, r.charset).exc = ""
    THEN Decode(up.body, r.charset).text
    ELSE Utf8DecodeReplace(up.body)

\* what C12 says of a request r on a default format answered with resp
ContentShaped ==
    /\ resp.kind \in {"json", "jsonp"}
    /\ resp.body.json = resp.page
    /\ "contents" \in DOMAIN resp.page
    /\ "status" \in DOMAIN resp.page
    /\ IF resp.page.contents = None
       THEN "error" \in DOMAIN resp.page.status
       ELSE "error" \notin DOMAIN resp.page.status
    /\ (resp.fetched /\ resp.met.kind = "ok") =>
          resp.page.contents = DecodedBody(req, resp.met)
    /\ (resp.fetched /\ resp.met.kind = "error") =>
          /\ resp.page.contents = None
          /\ resp.page.status.error = resp.met.message

C13_NoFault ==
    nreq >= 1 => (resp.kind # "fault" /\ resp.exc = "" /\ resp.status \in {200, 400})

\* C14: the value held by a store entry never changes once it is stored: a
\* step leaves the data of every entry it keeps as it was, unless the step
\* is a request that wrote that entry anew with set.
C14_StoredByValue ==
    [][\A k \in DOMAIN cache \cap DOMAIN cache' :
            ~(Handles /\ resp'.stored /\ KeyOf(req') = k)
                => cache'[k].data = cache[k].data]_vars

\* the response is foo(<json>); served as a script
JsonpOfFoo ==
    /\ resp.kind = "jsonp"
    /\ resp.body.parts = <<[text |-> "foo("], [json |-> resp.page], [text |-> ");"]>>
    /\ resp.body.mimetype = "application/javascript"
    /\ resp.body.mimetype # "application/json"

\* C15 as stated: every answered request with callback=foo, on any format,
\* gets the body foo(<json>); with <json> the JSON encoding of the result,
\* served with a script content type.
C15_AsStated ==
    (Encoded /\ req.callback = "foo") => JsonpOfFoo

\* C15 amended: an answered request with callback=foo gets the body
\* foo(<json>); served with a script content type whenever its response is
\* JSON-encoded, that is on every format except raw with a result that
\* reports no error; on raw with such a result the callback is ignored and
\* the response is the raw one.  Without callback the JSON is not wrapped.
C15_Jsonp ==
    Encoded =>
        /\ req.callback = "foo" =>
              IF req.path = "raw" /\ "error" \notin DOMAIN resp.page
              THEN resp.kind = "raw"
              ELSE JsonpOfFoo
        /\ req.callback = Absent =>
              /\ resp.kind # "jsonp"
              /\ resp.kind = "json" =>
                    /\ resp.body.parts = <<[json |-> resp.page]>>
                    /\ resp.body.mimetype = "application/json"

C15_Witness ==
    /\ Encoded
    /\ req.callback = "foo"
    /\ req.path = "info"
    /\ resp.hit
    /\ JsonpOfFoo

\* C16: every response the program produces, the empty one of OPTIONS, the
\* 400s, hits and misses, raw, JSON and JSONP, error results, carries
\* Access-Control-Allow-Origin equal to the Origin header of the request, or
\* * when the request has none, and Access-Control-Allow-Credentials: true.
C16_Cors ==
    (nreq >= 1 /\ resp.kind # "fault") =>
        /\ resp.cors # None
        /\ resp.cors.allow_origin = (IF req.origin = Absent THEN "*" ELSE req.origin)
        /\ resp.cors.allow_credentials = "true"

C16_Witness ==
    /\ nreq = 2
    /\ req.origin = "http://b"
    /\ req.path = "raw"
    /\ resp.hit
    /\ resp.kind = "raw"
    /\ resp.cors.allow_origin = "http://b"
    /\ resp.cors.allow_credentials = "true"

\* C17: an answered request with format=raw whose result reports no error,
\* freshly fetched or served from the cache, gets the raw response: the body
\* is the bytes the upstream sent (none for a HEAD request), Content-Type is
\* the upstream's content type, Content-Length is the number of those bytes,
\* and the page gets no response_time.
C17_RawVerbatim ==
    (Encoded /\ req.path = "raw" /\ "error" \notin DOMAIN resp.page) =>
        /\ resp.kind = "raw"
        /\ "response_time" \notin DOMAIN resp.page
        /\ resp.body.content_length = Len(resp.body.content)
        /\ resp.fetched =>
              /\ resp.body.content = (IF req.method = "HEAD" THEN <<>> ELSE resp.met.body)
              /\ resp.body.content_type = resp.met.ctype
        /\ resp.hit =>
              /\ "content" \in DOMAIN resp.page
              /\ resp.body.content = resp.page.content
              /\ resp.body.content_type = resp.page.contentType

\* C18: the header-only probe (format=info or method HEAD) of an upstream
\* that answers never fails, and the content length it reports is the value
\* of the Content-Length header when that is an integer, and -1 when the
\* header is absent or is no integer.
C18_ContentLength ==
    (nreq >= 1 /\ Valid(req) /\ (req.path = "info" \/ req.method = "HEAD")
            /\ resp.fetched /\ resp.met.kind = "ok") =>
        /\ resp.kind # "fault"
        /\ resp.page # None
        /\ "content_length" \in DOMAIN resp.page
        /\ resp.page.content_length =
              (IF resp.met.clen \in DOMAIN IntOf THEN IntOf[resp.met.clen] ELSE -1)

----------------------------------------------------------------------------
(* SpecConc: the cache part of process_request run by the threads of the   *)
(* server.  ResponseCache holds no lock, so the threads interleave between *)
(* the statements of get and set:                                          *)
(*   g1  if key in self.cache:                                             *)
(*   g2      item = self.cache[key]                                        *)
(*   g3      if item['expiry'] > time.time(): return item['data']          *)
(*   g4      else: del self.cache[key]                                     *)
(*       return None; the page is fetched                                  *)
(*   s1  if len(self.cache) >= self.max_size:                              *)
(*   s2      self.cache = {}                                               *)
(*   s3  self.cache[key] = {'data': value, 'expiry': time.time() + ttl}    *)
(* pc is "idle" between requests, "fault" after a KeyError.                *)

Threads == {1, 2}
ConcKeys == {"GET:a:json:", "GET:a:raw:", "HEAD:a:json:"}

IdleThread == [pc |-> "idle", key |-> "", item |-> None, got |-> None]

\* the page thread t fetches
PageOf(t) == [contents |-> <<t>>]

InitConc ==
    /\ cache = EmptyStore
    /\ now = 0
    /\ op = IdleOp
    /\ streak = <<>>
    /\ tuples = IdleTuples
    /\ nreq = 0
    /\ req = IdleReq
    /\ resp = IdleResp
    /\ thr = [t \in Threads |-> IdleThread]

At(t, pc) == thr[t].pc = pc

Goto(t, pc) == thr' = [thr EXCEPT ![t].pc = pc]

ConcFrame == UNCHANGED <<now, op, streak, tuples, nreq, req, resp>>

\* a request arrives: process_request calls response_cache.get(cache_key)
Begin(t, key) ==
    /\ At(t, "idle")
    /\ thr' = [thr EXCEPT ![t] = [pc |-> "g1", key |-> key, item |-> None, got |-> None]]
    /\ UNCHANGED cache
    /\ ConcFrame

G1(t) ==
    /\ At(t, "g1")
    /\ Goto(t, IF thr[t].key \in DOMAIN cache THEN "g2" ELSE "s1")
    /\ UNCHANGED cache
    /\ ConcFrame

G2(t) ==
    /\ At(t, "g2")
    /\ IF thr[t].key \in DOMAIN cache
       THEN thr' = [thr EXCEPT ![t].pc = "g3", ![t].item = cache[thr[t].key]]
       ELSE Goto(t, "fault")
    /\ UNCHANGED cache
    /\ ConcFrame

\* a live entry is served from the cache and the request ends
G3(t) ==
    /\ At(t, "g3")
    /\ IF thr[t].item.expiry > now
       THEN thr' = [thr EXCEPT ![t].pc = "idle", ![t].got = thr[t].item.data]
       ELSE Goto(t, "g4")
    /\ UNCHANGED cache
    /\ ConcFrame

G4(t) ==
    /\ At(t, "g4")
    /\ IF thr[t].key \in DOMAIN cache
       THEN cache' = Remove(cache, thr[t].key) /\ Goto(t, "s1")
       ELSE UNCHANGED cache /\ Goto(t, "fault")
    /\ ConcFrame

S1(t) ==
    /\ At(t, "s1")
    /\ Goto(t, IF Cardinality(DOMAIN cache) >= max_size THEN "s2" ELSE "s3")
    /\ UNCHANGED cache
    /\ ConcFrame

S2(t) ==
    /\ At(t, "s2")
    /\ cache' = EmptyStore
    /\ Goto(t, "s3")
    /\ ConcFrame

S3(t) ==
    /\ At(t, "s3")
    /\ cache' = Put(cache, thr[t].key,
                    [data |-> PageOf(t), expiry |-> now + MIN_CACHE_TIME])
    /\ thr' = [thr EXCEPT ![t].pc = "idle", ![t].got = PageOf(t)]
    /\ ConcFrame

\* the request that raised KeyError is answered with a 500; the thread
\* takes the next request
Recover(t) ==
    /\ At(t, "fault")
    /\ thr' = [thr EXCEPT ![t] = IdleThread]
    /\ UNCHANGED cache
    /\ ConcFrame

ConcElapse ==
    /\ now + MIN_CACHE_TIME <= MaxTime * 100
    /\ now' = now + MIN_CACHE_TIME
    /\ UNCHANGED <<cache, op, streak, tuples, nreq, req, resp, thr>>

NextConc ==
    \/ \E t \in Threads, key \in ConcKeys : Begin(t, key)
    \/ \E t \in Threads : G1(t)
    \/ \E t \in Threads : G2(t)
    \/ \E t \in Threads : G3(t)
    \/ \E t \in Threads : G4(t)
    \/ \E t \in Threads : S1(t)
    \/ \E t \in Threads : S2(t)
    \/ \E t \in Threads : S3(t)
    \/ \E t \in Threads : Recover(t)
    \/ ConcElapse

SpecConc == InitConc /\ [][NextConc]_vars

\* C4: under every interleaving of the get and set calls of concurrent
\* requests no call faults and the store never holds more than max_size
\* entries.
C4_ConcurrentSafe ==
    /\ \A t \in Threads : thr[t].pc # "fault"
    /\ Cardinality(DOMAIN cache) <= max_size

\* C19: when two threads handle requests with the same cache key, neither
\* request faults, and once both are answered the store holds one entry for
\* the key, whose value is a page one of the two wrote.
C19_IdenticalMisses ==
    \A t \in Threads, u \in Threads :
        (t # u /\ thr[t].key # "" /\ thr[t].key = thr[u].key) =>
            /\ thr[t].pc # "fault"
            /\ (thr[t].pc = "idle" /\ thr[u].pc = "idle") =>
                  /\ thr[t].got # None
                  /\ thr[t].key \in DOMAIN cache
                  /\ cache[thr[t].key].data \in {PageOf(t), PageOf(u)}

====
